---- MODULE Spec2Model ----
(***************************************************************************)
(* Model of transcribe-meetings: the run pipeline of main.go, the          *)
(* TranscribeService and S3Service of internal/aws, config.New and the     *)
(* transcript formatter of internal/formatting.                            *)
(*                                                                         *)
(* Strings whose characters matter to the code (paths, bucket names,       *)
(* speaker labels, transcript text) are sequences of one-character         *)
(* strings, so that HasSuffix, TrimPrefix, ToLower and Base are computed   *)
(* character by character as the Go code computes them.                    *)
(***************************************************************************)
EXTENDS Integers, Sequences, FiniteSets, TLC

(***************************************************************************)
(* Bounds of the model.                                                    *)
(***************************************************************************)
\* longest items sequence enumerated exhaustively for the formatter
MaxItems == 3

(***************************************************************************)
(* Go strings package, as used by the code.                                *)
(***************************************************************************)
HasPrefix(s, p) == Len(s) >= Len(p) /\ SubSeq(s, 1, Len(p)) = p

HasSuffix(s, p) == Len(s) >= Len(p) /\ SubSeq(s, Len(s) - Len(p) + 1, Len(s)) = p

TrimPrefix(s, p) == IF HasPrefix(s, p) THEN SubSeq(s, Len(p) + 1, Len(s)) ELSE s

UpperLetters ==
    <<"A", "B", "C", "D", "E", "F", "G", "H", "I", "J", "K", "L", "M",
      "N", "O", "P", "Q", "R", "S", "T", "U", "V", "W", "X", "Y", "Z">>

LowerLetters ==
    <<"a", "b", "c", "d", "e", "f", "g", "h", "i", "j", "k", "l", "m",
      "n", "o", "p", "q", "r", "s", "t", "u", "v", "w", "x", "y", "z">>

\* the lower case of one character; the paths of the model are ASCII
LowerOf(c) ==
    IF \E i \in 1..Len(UpperLetters) : UpperLetters[i] = c
      THEN LowerLetters[CHOOSE i \in 1..Len(UpperLetters) : UpperLetters[i] = c]
      ELSE c

ToLower(s) == [i \in 1..Len(s) |-> LowerOf(s[i])]

(***************************************************************************)
(* Text literals of the formatter.                                         *)
(***************************************************************************)
NL == "\n"
SpkPrefix == <<"s", "p", "k", "_">>
HeaderHead == <<"S", "p", "e", "a", "k", "e", "r", " ">>
HeaderTail == <<":", " ">>
ParagraphBreak == <<NL, NL>>
Space == <<" ">>

WHello == <<"H", "e", "l", "l", "o">>
WWorld == <<"w", "o", "r", "l", "d">>
WHi == <<"H", "i">>
PComma == <<",">>
PPeriod == <<".">>
PColon == <<":">>
Spk0 == <<"s", "p", "k", "_", "0">>
Spk1 == <<"s", "p", "k", "_", "1">>
Spk12 == <<"s", "p", "k", "_", "1", "2">>
\* a speaker label without the spk_ prefix
LabelBob == <<"b", "o", "b">>
NoLabel == <<>>

(***************************************************************************)
(* types.Item: Type, Alternatives (the contents, in order), SpeakerLabel.  *)
(***************************************************************************)
Item(t, alts, label) == [type |-> t, alternatives |-> alts, label |-> label]

Word(c, label) == Item("pronunciation", <<c>>, label)

Punct(c) == Item("punctuation", <<c>>, NoLabel)

\* the items of the specification's worked example
ExampleItems ==
    << Word(WHello, Spk0), Punct(PComma), Word(WWorld, Spk0), Punct(PPeriod), Word(WHi, Spk1) >>

ExampleOutput ==
    HeaderHead \o <<"0">> \o HeaderTail \o WHello \o PComma \o Space \o WWorld \o PPeriod
      \o ParagraphBreak \o HeaderHead \o <<"1">> \o HeaderTail \o WHi

(***************************************************************************)
(* FormatTranscriptWithSpeakers: the body of the loop over the items       *)
(* (FormatItem), and the whole function as the fold of that body.          *)
(* st is the pair of the function's locals: formatted and currentSpeaker.  *)
(***************************************************************************)
SpeakerChangedWrong(item, cur) == item.label # cur

SpeakerChanged(item, cur) == item.label # <<>> /\ item.label # cur

HeaderWrong(label) == HeaderHead \o label \o HeaderTail

Header(label) == HeaderHead \o TrimPrefix(label, SpkPrefix) \o HeaderTail

NeedsBreakWrong(text) == TRUE

\* formatted.Len() > 0
NeedsBreak(text) == Len(text) > 0

NeedsSpaceWrong(text) == ~HasSuffix(text, <<":">>)

NeedsSpace(text) == ~HasSuffix(text, HeaderTail)

\* a variant in which a labelled punctuation item takes over the turn
FormatItemWrong(st, item) ==
    CASE item.type = "punctuation" ->
           [formatted |-> IF Len(item.alternatives) > 0
                            THEN st.formatted \o item.alternatives[1]
                            ELSE st.formatted,
            currentSpeaker |-> IF item.label # <<>> THEN item.label ELSE st.currentSpeaker]
      [] item.type = "pronunciation" ->
           LET changed == SpeakerChanged(item, st.currentSpeaker)
               cur == IF changed THEN item.label ELSE st.currentSpeaker
               f1 == IF changed /\ NeedsBreak(st.formatted)
                       THEN st.formatted \o ParagraphBreak
                       ELSE st.formatted
               f2 == IF changed THEN f1 \o Header(cur) ELSE f1
               f3 == IF Len(item.alternatives) > 0
                       THEN (IF NeedsSpace(f2) THEN f2 \o Space ELSE f2)
                              \o item.alternatives[1]
                       ELSE f2
           IN  [formatted |-> f3, currentSpeaker |-> cur]
      [] OTHER -> st

\* the body of the range loop: the switch on item.Type
FormatItem(st, item) ==
    CASE item.type = "punctuation" ->
           IF Len(item.alternatives) > 0
             THEN [st EXCEPT !.formatted = @ \o item.alternatives[1]]
             ELSE st
      [] item.type = "pronunciation" ->
           LET changed == SpeakerChanged(item, st.currentSpeaker)
               cur == IF changed THEN item.label ELSE st.currentSpeaker
               f1 == IF changed /\ NeedsBreak(st.formatted)
                       THEN st.formatted \o ParagraphBreak
                       ELSE st.formatted
               f2 == IF changed THEN f1 \o Header(cur) ELSE f1
               f3 == IF Len(item.alternatives) > 0
                       THEN (IF NeedsSpace(f2) THEN f2 \o Space ELSE f2)
                              \o item.alternatives[1]
                       ELSE f2
           IN  [formatted |-> f3, currentSpeaker |-> cur]
      [] OTHER -> st

FormatStart == [formatted |-> <<>>, currentSpeaker |-> <<>>]

RECURSIVE FormatFold(_, _, _)
FormatFold(st, items, i) ==
    IF i > Len(items) THEN st ELSE FormatFold(FormatItem(st, items[i]), items, i + 1)

FormatTranscriptWithSpeakers(items) == FormatFold(FormatStart, items, 1).formatted

(***************************************************************************)
(* Local files and command lines.  A path is a sequence of characters.     *)
(***************************************************************************)
PathM == <<"a", "/", "m", ".", "m", "4", "a">>
PathMCopy == <<"b", "/", "m", ".", "m", "4", "a">>
PathN == <<"a", "/", "n", ".", "M", "4", "A">>
PathGone == <<"a", "/", "g", ".", "m", "4", "a">>
PathTxt == <<"a", "/", "t", ".", "t", "x", "t">>
PathOut == <<"o", "u", "t", ".", "t", "x", "t">>
M4aSuffix == <<".", "m", "4", "a">>

BytesA == <<"01">>
BytesB == <<"02">>

\* the files present on the local disk: PathM, PathMCopy and PathN hold the
\* same bytes, PathTxt holds other bytes, PathGone does not exist
FileExists(path) == path \in {PathM, PathMCopy, PathN, PathTxt}

FileBytes(path) == IF path = PathTxt THEN BytesB ELSE BytesA

BucketGood == <<"b", "k", "t">>
BucketUpper == <<"B", "k", "t">>

LowerAlnum ==
    {"a", "b", "c", "d", "e", "f", "g", "h", "i", "j", "k", "l", "m", "n", "o", "p", "q",
     "r", "s", "t", "u", "v", "w", "x", "y", "z", "0", "1", "2", "3", "4", "5", "6", "7",
     "8", "9"}

\* regexp ^[a-z0-9][a-z0-9.-]{1,61}[a-z0-9]$
ValidateBucketName(bucket) ==
    /\ Len(bucket) >= 3
    /\ Len(bucket) <= 63
    /\ bucket[1] \in LowerAlnum
    /\ bucket[Len(bucket)] \in LowerAlnum
    /\ \A i \in 2..(Len(bucket) - 1) : bucket[i] \in LowerAlnum \cup {".", "-"}

(***************************************************************************)
(* A Go int is 64 bits wide, wider than the integers of the checker: it    *)
(* is kept as its high 32 bits (signed) and two unsigned 16-bit limbs,     *)
(* value = hi * 2^32 + mid * 2^16 + lo.                                    *)
(***************************************************************************)
Limb == 65536

\* the Go int of a number in 0 .. 2^31 - 1
GoInt(n) == [hi |-> 0, mid |-> n \div Limb, lo |-> n % Limb]

\* the conversion int32(n) of a Go int: the low 32 bits, as a signed number
Int32(n) == (IF 2 * n.mid < Limb THEN n.mid ELSE n.mid - Limb) * Limb + n.lo

\* the defaults of the flags -l and -m
DefaultLanguageCode == "en-US"
DefaultMaxSpeakers == 10

\* -m 4294967306, that is 2^32 + 10
WideMaxSpeakers == [hi |-> 1, mid |-> 0, lo |-> 10]

\* the flags of one invocation: -f, -b, -d and the documented -force, with
\* -l and -m at their defaults
Args(input, bucket, diar, force) ==
    [input |-> input, output |-> PathOut, bucket |-> bucket, diarization |-> diar,
     force |-> force, version |-> FALSE,
     languageCode |-> DefaultLanguageCode, maxSpeakers |-> GoInt(DefaultMaxSpeakers)]

\* the same invocation with another -o, and with -v
WithOutput(args, output) == [args EXCEPT !.output = output]

WithVersion(args) == [args EXCEPT !.version = TRUE]

\* the same invocation with -l and -m given
WithLanguage(args, lang, maxSpeakers) ==
    [args EXCEPT !.languageCode = lang, !.maxSpeakers = maxSpeakers]

NoArgs == WithOutput(Args(<<>>, <<>>, FALSE, FALSE), <<>>)

ArgSets ==
    {Args(PathM, BucketGood, FALSE, FALSE),
     Args(PathMCopy, BucketGood, TRUE, FALSE)}
      \cup {WithLanguage(Args(PathN, BucketGood, TRUE, FALSE), "fr-FR", WideMaxSpeakers),
            Args(PathGone, BucketGood, FALSE, FALSE),
            Args(PathTxt, BucketGood, FALSE, FALSE),
            Args(PathM, BucketUpper, FALSE, FALSE),
            Args(PathM, BucketGood, TRUE, TRUE),
            WithVersion(Args(PathTxt, BucketGood, FALSE, FALSE)),
            WithOutput(Args(PathM, BucketGood, FALSE, FALSE), <<>>)}

\* the process ends inside config.New with that exit code
Exit(code) == [exit |-> TRUE, code |-> code, err |-> <<>>]

\* config.New returns that error (<<>> is nil)
Returned(e) == [exit |-> FALSE, code |-> 0, err |-> e]

\* a variant without the check of the file suffix
NewWrong(args) ==
    IF args.force
      THEN Exit(2)
      ELSE IF args.version
        THEN Exit(0)
        ELSE IF args.input = <<>> \/ args.output = <<>> \/ args.bucket = <<>>
          THEN Exit(1)
          ELSE IF ~ValidateBucketName(args.bucket)
            THEN Returned(<<"invalid bucket name">>)
            ELSE Returned(<<>>)

\* config.New: the flag set is created with flag.ExitOnError and defines no
\* -force flag, so fs.Parse ends the process on it; -v prints the version
\* and exits; an empty -f, -o or -b prints the usage and exits
New(args) ==
    IF args.force
      THEN Exit(2)
      ELSE IF args.version
        THEN Exit(0)
        ELSE IF args.input = <<>> \/ args.output = <<>> \/ args.bucket = <<>>
          THEN Exit(1)
          ELSE IF ~HasSuffix(ToLower(args.input), M4aSuffix)
            THEN Returned(<<"input file must be an m4a file">>)
            ELSE IF ~ValidateBucketName(args.bucket)
              THEN Returned(<<"invalid bucket name">>)
              ELSE Returned(<<>>)

(***************************************************************************)
(* Content addressing in run: the hash prefix, the S3 key, the job name.   *)
(***************************************************************************)
\* hex.EncodeToString(sha256(bytes))[:16] of the two file contents
FileHash(bytes) ==
    IF bytes = BytesA
      THEN <<"4", "b", "f", "5", "1", "2", "2", "f", "3", "4", "4", "5", "5", "4", "c", "5">>
      ELSE <<"d", "b", "c", "1", "b", "4", "c", "9", "0", "0", "f", "f", "e", "4", "8", "d">>

LastSlash(path) ==
    LET slashes == {i \in 1..Len(path) : path[i] = "/"}
    IN  IF slashes = {} THEN 0 ELSE CHOOSE i \in slashes : \A j \in slashes : j <= i

\* filepath.Base, for paths that do not end in a separator
Base(path) == SubSeq(path, LastSlash(path) + 1, Len(path))

S3KeyWrong(hash, path) == <<"uploads/">> \o hash

S3Key(hash, path) == <<"uploads/">> \o hash \o <<"_">> \o Base(path)

JobNameWrong(hash, path) == <<"transcribe-">> \o hash \o Base(path)

JobName(hash, path) == <<"transcribe-">> \o hash

TranscriptionKey(jobName) == jobName \o <<".json">>

JobNames == {JobName(FileHash(b), <<>>) : b \in {BytesA, BytesB}}

(***************************************************************************)
(* startTranscriptionJob: the request it builds.                           *)
(***************************************************************************)
NoSettings == [present |-> FALSE, showSpeakerLabels |-> FALSE, maxSpeakerLabels |-> 0]

NoRequest ==
    [jobName |-> <<>>, languageCode |-> "", mediaFormat |-> "", mediaFileUri |-> <<>>,
     outputBucket |-> <<>>, settings |-> NoSettings]

StartTranscriptionJobInput(jobName, bucket, mediaKey, c) ==
    [jobName |-> jobName,
     languageCode |-> c.languageCode,
     mediaFormat |-> "m4a",
     mediaFileUri |-> <<"s3://">> \o bucket \o <<"/">> \o mediaKey,
     outputBucket |-> bucket,
     settings |-> IF c.diarization
                    THEN [present |-> TRUE, showSpeakerLabels |-> c.diarization,
                          maxSpeakerLabels |-> Int32(c.maxSpeakers)]
                    ELSE NoSettings]

(***************************************************************************)
(* The transcript documents the transcription service writes to the        *)
(* bucket, and S3Service.GetTranscriptFromS3 applied to a fetched one.     *)
(***************************************************************************)
Flat1 == WHi \o PPeriod
Flat2 == WHello

Doc(kind, transcripts, hasLabels, items) ==
    [kind |-> kind, transcripts |-> transcripts, speakerLabels |-> hasLabels, items |-> items]

NoDoc == Doc("none", <<>>, FALSE, <<>>)

UnlabelledItems ==
    << Word(WHello, NoLabel), Punct(PComma), Word(WWorld, NoLabel), Punct(PPeriod),
       Word(WHi, NoLabel) >>

\* the items of the documents in the bucket: one short turn
DocItems(diar) == << Word(WHi, IF diar THEN Spk1 ELSE NoLabel), Punct(PPeriod) >>

\* what a finished job may have written: the service labels speakers only
\* when the start request asked for it
DocsFor(diar) ==
    { Doc("malformed", <<>>, FALSE, <<>>),
      Doc("json", <<>>, diar, <<>>),
      Doc("json", <<Flat1, Flat2>>, diar, DocItems(diar)) }

UseSpeakersWrong(cfgDiar, doc) == doc.speakerLabels

\* a variant that looks at the flag only
UseSpeakersOnFlag(cfgDiar, doc) == cfgDiar

\* cfg.SpeakerDiarization && result.Results.SpeakerLabels != nil
UseSpeakers(cfgDiar, doc) == cfgDiar /\ doc.speakerLabels

\* a variant that hands back an empty text for an empty transcripts list
GetTranscriptFromS3Wrong(doc, cfgDiar) ==
    IF doc.kind = "malformed"
      THEN [err |-> <<"json decode error">>, text |-> <<>>]
      ELSE IF Len(doc.transcripts) = 0
        THEN [err |-> <<>>, text |-> <<>>]
        ELSE IF UseSpeakers(cfgDiar, doc)
          THEN [err |-> <<>>, text |-> FormatTranscriptWithSpeakers(doc.items)]
          ELSE [err |-> <<>>, text |-> doc.transcripts[1]]

\* the part of GetTranscriptFromS3 after a successful GetObject
GetTranscriptFromS3(doc, cfgDiar) ==
    IF doc.kind = "malformed"
      THEN [err |-> <<"json decode error">>, text |-> <<>>]
      ELSE IF Len(doc.transcripts) = 0
        THEN [err |-> <<"no transcript found in result">>, text |-> <<>>]
        ELSE IF UseSpeakers(cfgDiar, doc)
          THEN [err |-> <<>>, text |-> FormatTranscriptWithSpeakers(doc.items)]
          ELSE [err |-> <<>>, text |-> doc.transcripts[1]]

(***************************************************************************)
(* State.                                                                  *)
(***************************************************************************)
\* the concurrent invocations of the program
Runs == {1, 2}

VARIABLES
    pc,          \* per run: the step of run / EnsureTranscriptionJob it is at
    cfg,         \* per run: the flags given to config.New
    ctxDone,     \* per run: the context of main was cancelled by an interrupt
    err,         \* per run: the error returned by run (<<>> is nil)
    loc,         \* per run: the locals s3Key, jobName, jobStatus, transcript, and
                 \* whether the transcript document was fetched and handed to the decoder;
                 \* what the services answered to HeadObject and to the first
                 \* GetTranscriptionJob ("ok", "notfound", "error"); the step at
                 \* which a remote call or the decoding failed
    ensureRet,   \* per run: what EnsureTranscriptionJob returned, and on which status
    outFile,     \* per run: the output file on the local disk
    calls,       \* per run: the remote calls issued, in order
    after,       \* per run: the runs that had succeeded when this one began
    cancelAt,    \* per run: the step the run was at when it was interrupted
    objects,     \* the media objects in the bucket
    jobs,        \* the transcription jobs of the service, by name
    docs,        \* the transcript documents in the bucket, by job name
    fItems,      \* formatter: the items of the result being formatted
    fIdx,        \* formatter: index of the next item of the range loop
    fState,      \* formatter: the locals formatted and currentSpeaker
    fpc,         \* formatter: "idle", "loop" or "done"
    fOut         \* formatter: the returned string

runVars == <<pc, cfg, ctxDone, err, loc, ensureRet, outFile, calls, after, cancelAt>>
remoteVars == <<objects, jobs, docs>>
fmtVars == <<fItems, fIdx, fState, fpc, fOut>>
vars == <<runVars, remoteVars, fmtVars>>

NoLoc ==
    [s3Key |-> <<>>, jobName |-> <<>>, jobStatus |-> "", decoded |-> FALSE, transcript |-> <<>>,
     objResp |-> "", jobResp |-> "", failed |-> ""]

NoReturn == [returned |-> FALSE, err |-> <<>>, existed |-> FALSE, status |-> ""]

NoFile == [written |-> FALSE, path |-> <<>>, data |-> <<>>]

NoJob == [status |-> "NONE", diarization |-> FALSE, request |-> NoRequest]

Wrap(msg, e) == <<msg>> \o e

Canceled == <<"context canceled">>

RemoteError == <<"remote error">>

InitRuns ==
    /\ pc = [r \in Runs |-> "new"]
    /\ cfg = [r \in Runs |-> NoArgs]
    /\ ctxDone = [r \in Runs |-> FALSE]
    /\ err = [r \in Runs |-> <<>>]
    /\ loc = [r \in Runs |-> NoLoc]
    /\ ensureRet = [r \in Runs |-> NoReturn]
    /\ outFile = [r \in Runs |-> NoFile]
    /\ calls = [r \in Runs |-> <<>>]
    /\ after = [r \in Runs |-> {}]
    /\ cancelAt = [r \in Runs |-> "never"]
    /\ objects = {}
    /\ jobs = [j \in JobNames |-> NoJob]
    /\ docs = [j \in JobNames |-> NoDoc]

FmtIdle ==
    /\ fItems = <<>>
    /\ fIdx = 1
    /\ fState = FormatStart
    /\ fpc = "idle"
    /\ fOut = <<>>

Init == InitRuns /\ FmtIdle

(***************************************************************************)
(* Steps of run.  A remote call made with a cancelled context fails with   *)
(* the context's error without reaching the service.  A call that was sent *)
(* blocks until it returns, and the context may be cancelled meanwhile:    *)
(* each call is two steps, the sending of the request and its return.  A   *)
(* call returns the answer of the service, an error of the service or the  *)
(* network, or, once the context is cancelled, the context's error.        *)
(***************************************************************************)
\* a variant that drops the error on the way out
ReturnWrong(r, e) ==
    /\ pc' = [pc EXCEPT ![r] = "done"]
    /\ err' = [err EXCEPT ![r] = <<>>]

Return(r, e) ==
    /\ pc' = [pc EXCEPT ![r] = "done"]
    /\ err' = [err EXCEPT ![r] = e]

Goto(r, step) ==
    /\ pc' = [pc EXCEPT ![r] = step]
    /\ UNCHANGED err

\* consecutive status polls are recorded once
Call(r, name) ==
    calls' = [calls EXCEPT ![r] =
                IF Len(@) > 0 /\ @[Len(@)] = name THEN @ ELSE Append(@, name)]

Succeeded(q) == pc[q] = "done" /\ err[q] = <<>>

\* what a call under way may return: what the service answers, a failure,
\* or the context's error once the context is cancelled
Answers(r, served) ==
    served \cup {"error"} \cup (IF ctxDone[r] THEN {"canceled"} ELSE {})

\* the error of a call that returned no answer of the service
AnswerErr(resp) == IF resp = "canceled" THEN Canceled ELSE RemoteError

\* what the run records of an answer: the answer, or that the call failed
Recorded(resp) == IF resp = "canceled" THEN "error" ELSE resp

\* run: appConfig.New(args)
NewConfig(r) ==
    /\ pc[r] = "new"
    /\ \E a \in ArgSets :
         /\ cfg' = [cfg EXCEPT ![r] = a]
         /\ IF New(a).exit
              THEN pc' = [pc EXCEPT ![r] = "exited"] /\ UNCHANGED err
              ELSE IF New(a).err # <<>>
                THEN Return(r, New(a).err)
                ELSE Goto(r, "headBucket")
    /\ after' = [after EXCEPT ![r] = {q \in Runs : Succeeded(q)}]
    /\ UNCHANGED <<ctxDone, loc, ensureRet, outFile, calls, cancelAt, remoteVars, fmtVars>>

\* run: config.LoadDefaultConfig, which reads the local AWS configuration
\* and may fail on it, then s3Service.HeadBucket up to the sending of the
\* request
HeadBucket(r) ==
    /\ pc[r] = "headBucket"
    /\ \/ /\ Return(r, Wrap("load AWS SDK config", <<"config error">>))
          /\ UNCHANGED <<loc, calls>>
       \/ /\ ctxDone[r]
          /\ Return(r, Wrap("verify bucket exists", Canceled))
          /\ loc' = [loc EXCEPT ![r].failed = "headBucket"]
          /\ UNCHANGED calls
       \/ /\ ~ctxDone[r]
          /\ Call(r, "HeadBucket")
          /\ Goto(r, "headBucketWait")
          /\ UNCHANGED loc
    /\ UNCHANGED <<cfg, ctxDone, ensureRet, outFile, after, cancelAt, remoteVars, fmtVars>>

\* run: s3Service.HeadBucket returns
HeadBucketReturns(r) ==
    /\ pc[r] = "headBucketWait"
    /\ \E resp \in Answers(r, {"ok"}) :
         IF resp = "ok"
           THEN /\ Goto(r, "open")
                /\ UNCHANGED loc
           ELSE /\ Return(r, Wrap("verify bucket exists", AnswerErr(resp)))
                /\ loc' = [loc EXCEPT ![r].failed = "headBucket"]
    /\ UNCHANGED <<cfg, ctxDone, ensureRet, outFile, calls, after, cancelAt, remoteVars,
                   fmtVars>>

\* run: os.Open, the hash of the file (reading it may fail), the S3 key and
\* the job name
OpenAndHash(r) ==
    /\ pc[r] = "open"
    /\ IF ~FileExists(cfg[r].input)
         THEN /\ Return(r, Wrap("open input file", <<"no such file">>))
              /\ UNCHANGED loc
         ELSE \/ /\ Return(r, Wrap("compute file hash", <<"read error">>))
                 /\ UNCHANGED loc
              \/ /\ Goto(r, "checkObject")
                 /\ loc' = [loc EXCEPT
                      ![r].s3Key = S3Key(FileHash(FileBytes(cfg[r].input)), cfg[r].input),
                      ![r].jobName = JobName(FileHash(FileBytes(cfg[r].input)), cfg[r].input)]
    /\ UNCHANGED <<cfg, ctxDone, ensureRet, outFile, calls, after, cancelAt, remoteVars, fmtVars>>

ObjectExistsWrong(key, bucketObjects) == FALSE

\* HeadObject succeeds exactly when the key is in the bucket
ObjectExists(key, bucketObjects) == key \in bucketObjects

\* the answer of the object store to HeadObject, failures apart
HeadObjectAnswer(key, bucketObjects) ==
    IF ObjectExists(key, bucketObjects) THEN "ok" ELSE "notfound"

\* a variant in which isNotFoundError recognises nothing
CheckObjectExistsResultWrong(resp) ==
    IF resp = "ok"
      THEN [exists |-> TRUE, err |-> <<>>]
      ELSE [exists |-> FALSE, err |-> AnswerErr(resp)]

\* S3Service.CheckObjectExists on the answer to HeadObject
CheckObjectExistsResult(resp) ==
    CASE resp = "ok" -> [exists |-> TRUE, err |-> <<>>]
      [] resp = "notfound" -> [exists |-> FALSE, err |-> <<>>]
      [] OTHER -> [exists |-> FALSE, err |-> AnswerErr(resp)]

\* run: s3Service.CheckObjectExists up to the sending of HeadObject
CheckObjectExists(r) ==
    /\ pc[r] = "checkObject"
    /\ \/ /\ ctxDone[r]
          /\ Return(r, Wrap("check S3 object existence", Canceled))
          /\ loc' = [loc EXCEPT ![r].objResp = "error", ![r].failed = "checkObject"]
          /\ UNCHANGED calls
       \/ /\ ~ctxDone[r]
          /\ Call(r, "HeadObject")
          /\ Goto(r, "checkObjectWait")
          /\ UNCHANGED loc
    /\ UNCHANGED <<cfg, ctxDone, ensureRet, outFile, after, cancelAt, remoteVars, fmtVars>>

\* run: HeadObject returns, and the branch on the result of
\* s3Service.CheckObjectExists
CheckObjectExistsReturns(r) ==
    /\ pc[r] = "checkObjectWait"
    /\ \E resp \in Answers(r, {HeadObjectAnswer(loc[r].s3Key, objects)}) :
         LET res == CheckObjectExistsResult(resp)
         IN  IF res.err # <<>>
               THEN /\ Return(r, Wrap("check S3 object existence", res.err))
                    /\ loc' = [loc EXCEPT ![r].objResp = Recorded(resp),
                                          ![r].failed = "checkObject"]
               ELSE /\ Goto(r, IF res.exists THEN "ensure" ELSE "upload")
                    /\ loc' = [loc EXCEPT ![r].objResp = Recorded(resp)]
    /\ UNCHANGED <<cfg, ctxDone, ensureRet, outFile, calls, after, cancelAt, remoteVars,
                   fmtVars>>

\* run: s3Service.UploadFile, which opens the input file again (it may be
\* gone by now), up to the sending of PutObject
UploadFile(r) ==
    /\ pc[r] = "upload"
    /\ \/ /\ Return(r, Wrap("upload file to S3", <<"no such file">>))
          /\ UNCHANGED <<loc, calls>>
       \/ /\ ctxDone[r]
          /\ Return(r, Wrap("upload file to S3", Canceled))
          /\ loc' = [loc EXCEPT ![r].failed = "upload"]
          /\ UNCHANGED calls
       \/ /\ ~ctxDone[r]
          /\ Call(r, "PutObject")
          /\ Goto(r, "uploadWait")
          /\ UNCHANGED loc
    /\ UNCHANGED <<cfg, ctxDone, ensureRet, outFile, after, cancelAt, remoteVars, fmtVars>>

\* run: PutObject returns.  The object is stored when the store answers; a
\* call that returns the context's error may have been served or not
UploadFileReturns(r) ==
    /\ pc[r] = "uploadWait"
    /\ \E resp \in Answers(r, {"ok"}) :
         \E stored \in (CASE resp = "ok" -> {TRUE}
                          [] resp = "canceled" -> BOOLEAN
                          [] OTHER -> {FALSE}) :
           /\ objects' = IF stored THEN objects \cup {loc[r].s3Key} ELSE objects
           /\ IF resp = "ok"
                THEN /\ Goto(r, "ensure")
                     /\ UNCHANGED loc
                ELSE /\ Return(r, Wrap("upload file to S3", AnswerErr(resp)))
                     /\ loc' = [loc EXCEPT ![r].failed = "upload"]
    /\ UNCHANGED <<cfg, ctxDone, ensureRet, outFile, calls, after, cancelAt, jobs, docs,
                   fmtVars>>

(***************************************************************************)
(* TranscribeService.EnsureTranscriptionJob, step by step.                 *)
(***************************************************************************)
EnsureReturns(r, e, existed, status) ==
    ensureRet' = [ensureRet EXCEPT ![r] =
                    [returned |-> TRUE, err |-> e, existed |-> existed, status |-> status]]

EnsureFails(r, e, existed, status) ==
    /\ EnsureReturns(r, e, existed, status)
    /\ Return(r, Wrap("ensuring transcription job", e))

\* the answer of the service to GetTranscriptionJob, failures apart
GetTranscriptionJobAnswer(job) == IF job.status # "NONE" THEN "ok" ELSE "notfound"

\* a variant that takes every error for "not found"
GetTranscriptionJobStatusWrong(resp, status) ==
    IF resp = "ok"
      THEN [exists |-> TRUE, status |-> status, err |-> <<>>]
      ELSE [exists |-> FALSE, status |-> "", err |-> <<>>]

\* TranscribeService.getTranscriptionJobStatus on the answer of the service
GetTranscriptionJobStatus(resp, status) ==
    CASE resp = "ok" -> [exists |-> TRUE, status |-> status, err |-> <<>>]
      [] resp = "notfound" -> [exists |-> FALSE, status |-> "", err |-> <<>>]
      [] OTHER -> [exists |-> FALSE, status |-> "", err |-> AnswerErr(resp)]

\* the first getTranscriptionJobStatus, up to the sending of the query
EnsureQuery(r) ==
    /\ pc[r] = "ensure"
    /\ \/ /\ ctxDone[r]
          /\ EnsureFails(r, Wrap("checking transcription job status", Canceled), FALSE, "")
          /\ loc' = [loc EXCEPT ![r].jobResp = "error", ![r].failed = "ensure"]
          /\ UNCHANGED calls
       \/ /\ ~ctxDone[r]
          /\ Call(r, "GetTranscriptionJob")
          /\ Goto(r, "ensureWait")
          /\ UNCHANGED <<loc, ensureRet>>
    /\ UNCHANGED <<cfg, ctxDone, outFile, after, cancelAt, remoteVars, fmtVars>>

\* the first status query returns, and the jobExists branch
EnsureQueryReturns(r) ==
    /\ pc[r] = "ensureWait"
    /\ \E resp \in Answers(r, {GetTranscriptionJobAnswer(jobs[loc[r].jobName])}) :
         LET res == GetTranscriptionJobStatus(resp, jobs[loc[r].jobName].status)
         IN  IF res.err # <<>>
               THEN /\ EnsureFails(r, Wrap("checking transcription job status", res.err),
                                   FALSE, "")
                    /\ loc' = [loc EXCEPT ![r].jobResp = Recorded(resp),
                                          ![r].failed = "ensure"]
               ELSE IF res.exists
                 THEN /\ EnsureReturns(r, <<>>, TRUE, res.status)
                      /\ loc' = [loc EXCEPT ![r].jobResp = Recorded(resp),
                                            ![r].jobStatus = res.status]
                      /\ Goto(r, "getTranscript")
                 ELSE /\ Goto(r, "startJob")
                      /\ loc' = [loc EXCEPT ![r].jobResp = Recorded(resp)]
                      /\ UNCHANGED ensureRet
    /\ UNCHANGED <<cfg, ctxDone, outFile, calls, after, cancelAt, remoteVars, fmtVars>>

\* the answer of the service to StartTranscriptionJob, failures apart: it
\* rejects a name that is already taken
StartTranscriptionJobAnswer(job) == IF job.status # "NONE" THEN "conflict" ELSE "ok"

\* a variant that takes the rejection of a taken name for a success
StartTranscriptionJobResultWrong(resp) ==
    IF resp \in {"ok", "conflict"} THEN <<>> ELSE AnswerErr(resp)

\* the error startTranscriptionJob returns on the answer of the service
StartTranscriptionJobResult(resp) ==
    CASE resp = "ok" -> <<>>
      [] resp = "conflict" -> <<"ConflictException">>
      [] OTHER -> AnswerErr(resp)

\* startTranscriptionJob up to the sending of the request
StartJob(r) ==
    /\ pc[r] = "startJob"
    /\ \/ /\ ctxDone[r]
          /\ EnsureFails(r, Wrap("start transcription job", Canceled), FALSE, "")
          /\ loc' = [loc EXCEPT ![r].failed = "startJob"]
          /\ UNCHANGED calls
       \/ /\ ~ctxDone[r]
          /\ Call(r, "StartTranscriptionJob")
          /\ Goto(r, "startJobWait")
          /\ UNCHANGED <<loc, ensureRet>>
    /\ UNCHANGED <<cfg, ctxDone, outFile, after, cancelAt, remoteVars, fmtVars>>

\* the job the service creates on a start request it accepts
CreatedJob(req) ==
    [status |-> "QUEUED",
     diarization |-> req.settings.present /\ req.settings.showSpeakerLabels,
     request |-> req]

\* StartTranscriptionJob returns, and the return on its error.  The job is
\* created when the service answers; a call that returns the context's error
\* may have been served (the job is there if the name was free) or not
StartJobReturns(r) ==
    /\ pc[r] = "startJobWait"
    /\ \E resp \in Answers(r, {StartTranscriptionJobAnswer(jobs[loc[r].jobName])}) :
         \E created \in (CASE resp = "ok" -> {TRUE}
                           [] resp = "canceled" ->
                                {FALSE, StartTranscriptionJobAnswer(jobs[loc[r].jobName]) = "ok"}
                           [] OTHER -> {FALSE}) :
           LET e == StartTranscriptionJobResult(resp)
               req == StartTranscriptionJobInput(loc[r].jobName, cfg[r].bucket,
                                                 loc[r].s3Key, cfg[r])
           IN  /\ jobs' = IF created
                            THEN [jobs EXCEPT ![loc[r].jobName] = CreatedJob(req)]
                            ELSE jobs
               /\ IF e # <<>>
                    THEN /\ EnsureFails(r, Wrap("start transcription job", e), FALSE, "")
                         /\ loc' = [loc EXCEPT ![r].failed = "startJob"]
                    ELSE /\ Goto(r, "poll")
                         /\ UNCHANGED <<loc, ensureRet>>
    /\ UNCHANGED <<cfg, ctxDone, outFile, calls, after, cancelAt, objects, docs, fmtVars>>

CtxErrWrong(done) == <<"transcription job failed">>

\* ctx.Err()
CtxErr(done) == IF done THEN Canceled ELSE <<>>

\* PollLoop: case <-ctx.Done()
PollCancelled(r) ==
    /\ pc[r] = "poll"
    /\ ctxDone[r]
    /\ EnsureFails(r, CtxErr(ctxDone[r]), FALSE, loc[r].jobStatus)
    /\ UNCHANGED <<cfg, ctxDone, loc, outFile, calls, after, cancelAt, remoteVars, fmtVars>>

\* a variant without the else-if on the failed status
PollOutcomeWrong(status) == IF status = "COMPLETED" THEN "break" ELSE "again"

\* what the poll does with the status it got
PollOutcome(status) ==
    CASE status = "COMPLETED" -> "break"
      [] status = "FAILED" -> "fail"
      [] OTHER -> "again"

\* PollLoop: case <-ticker.C, up to the sending of the status query; a query
\* on a cancelled context fails at once
PollTick(r) ==
    /\ pc[r] = "poll"
    /\ \/ /\ ctxDone[r]
          /\ EnsureFails(r, Wrap("retrieving transcription job status", Canceled),
                         FALSE, loc[r].jobStatus)
          /\ loc' = [loc EXCEPT ![r].failed = "poll"]
          /\ UNCHANGED calls
       \/ /\ ~ctxDone[r]
          /\ Call(r, "GetTranscriptionJob")
          /\ Goto(r, "polling")
          /\ UNCHANGED <<loc, ensureRet>>
    /\ UNCHANGED <<cfg, ctxDone, outFile, after, cancelAt, remoteVars, fmtVars>>

\* PollLoop: the status query returns and the status is tested.  The context
\* may have been cancelled while the query was under way: the query then
\* fails with the context's error, or its answer had arrived and is used
PollAnswer(r) ==
    /\ pc[r] = "polling"
    /\ \E resp \in Answers(r, {GetTranscriptionJobAnswer(jobs[loc[r].jobName])}) :
         LET res == GetTranscriptionJobStatus(resp, jobs[loc[r].jobName].status)
         IN  IF res.err # <<>>
               THEN /\ EnsureFails(r, Wrap("retrieving transcription job status", res.err),
                                   FALSE, loc[r].jobStatus)
                    /\ loc' = [loc EXCEPT ![r].failed = "poll"]
               ELSE /\ loc' = [loc EXCEPT ![r].jobStatus = res.status]
                    /\ CASE PollOutcome(res.status) = "break" ->
                              /\ EnsureReturns(r, <<>>, FALSE, res.status)
                              /\ Goto(r, "getTranscript")
                         [] PollOutcome(res.status) = "fail" ->
                              EnsureFails(r, <<"transcription job failed">>, FALSE,
                                          res.status)
                         [] OTHER ->
                              /\ Goto(r, "poll")
                              /\ UNCHANGED ensureRet
    /\ UNCHANGED <<cfg, ctxDone, outFile, calls, after, cancelAt, remoteVars, fmtVars>>

\* run: s3Service.GetTranscriptFromS3 up to the sending of GetObject
GetTranscript(r) ==
    /\ pc[r] = "getTranscript"
    /\ \/ /\ ctxDone[r]
          /\ Return(r, Wrap("retrieve transcription result", Canceled))
          /\ loc' = [loc EXCEPT ![r].failed = "getTranscript"]
          /\ UNCHANGED calls
       \/ /\ ~ctxDone[r]
          /\ Call(r, "GetObject")
          /\ Goto(r, "getTranscriptWait")
          /\ UNCHANGED loc
    /\ UNCHANGED <<cfg, ctxDone, ensureRet, outFile, after, cancelAt, remoteVars, fmtVars>>

\* the answer of the object store to GetObject, failures apart
GetObjectAnswer(doc) == IF doc.kind = "none" THEN "nosuchkey" ELSE "ok"

\* GetObject returns: an error, or the response whose body is to be read
GetTranscriptReturns(r) ==
    /\ pc[r] = "getTranscriptWait"
    /\ \E resp \in Answers(r, {GetObjectAnswer(docs[loc[r].jobName])}) :
         IF resp = "ok"
           THEN /\ Goto(r, "decode")
                /\ UNCHANGED loc
           ELSE /\ Return(r, Wrap("retrieve transcription result",
                                  IF resp = "nosuchkey" THEN <<"NoSuchKey">>
                                                        ELSE AnswerErr(resp)))
                /\ loc' = [loc EXCEPT ![r].failed = "getTranscript"]
    /\ UNCHANGED <<cfg, ctxDone, ensureRet, outFile, calls, after, cancelAt, remoteVars,
                   fmtVars>>

\* GetTranscriptFromS3: the decoder reads the body from the network, which
\* may fail or be cut by the cancelled context, and the rest of the function
\* works on the decoded document
DecodeTranscript(r) ==
    /\ pc[r] = "decode"
    /\ \E read \in Answers(r, {"ok"}) :
         IF read # "ok"
           THEN /\ Return(r, Wrap("retrieve transcription result", AnswerErr(read)))
                /\ loc' = [loc EXCEPT ![r].failed = "decode"]
           ELSE LET res == GetTranscriptFromS3(docs[loc[r].jobName], cfg[r].diarization)
                IN  IF res.err # <<>>
                      THEN /\ Return(r, Wrap("retrieve transcription result", res.err))
                           /\ loc' = [loc EXCEPT
                                ![r].decoded = TRUE,
                                ![r].failed = IF docs[loc[r].jobName].kind = "malformed"
                                                THEN "decode" ELSE @]
                      ELSE /\ Goto(r, "write")
                           /\ loc' = [loc EXCEPT ![r].decoded = TRUE,
                                                 ![r].transcript = res.text]
    /\ UNCHANGED <<cfg, ctxDone, ensureRet, outFile, calls, after, cancelAt, remoteVars,
                   fmtVars>>

\* what a write that fails after the file was created leaves in it: the
\* part of the text written before the error, from nothing to the whole
\* text (when only the closing of the file fails)
PartialWrites(text) == {SubSeq(text, 1, n) : n \in 0..Len(text)}

\* run: os.WriteFile (create or truncate, write, close) and the final
\* return; outFile[r] is what run r has put at its -o path
WriteFile(r) ==
    /\ pc[r] = "write"
    /\ \/ /\ outFile' = [outFile EXCEPT ![r] =
                          [written |-> TRUE, path |-> cfg[r].output,
                           data |-> loc[r].transcript]]
          /\ Return(r, <<>>)
       \/ /\ Return(r, Wrap("write transcript to file", <<"io error">>))
          /\ UNCHANGED outFile
       \/ /\ Return(r, Wrap("write transcript to file", <<"io error">>))
          /\ \E part \in PartialWrites(loc[r].transcript) :
               outFile' = [outFile EXCEPT ![r] =
                             [written |-> TRUE, path |-> cfg[r].output, data |-> part]]
    /\ UNCHANGED <<cfg, ctxDone, loc, ensureRet, calls, after, cancelAt, remoteVars, fmtVars>>

\* main: the interrupt signal cancels the context of the run; the handler
\* is installed before run reads the flags
Interrupt(r) ==
    /\ pc[r] \notin {"done", "exited"}
    /\ ~ctxDone[r]
    /\ ctxDone' = [ctxDone EXCEPT ![r] = TRUE]
    /\ cancelAt' = [cancelAt EXCEPT ![r] = pc[r]]
    /\ UNCHANGED <<pc, cfg, err, loc, ensureRet, outFile, calls, after, remoteVars, fmtVars>>

(***************************************************************************)
(* The transcription service: QUEUED -> IN_PROGRESS -> COMPLETED | FAILED. *)
(* A completed job has written its transcript document to the bucket.      *)
(***************************************************************************)
JobRuns(j) ==
    /\ jobs[j].status = "QUEUED"
    /\ jobs' = [jobs EXCEPT ![j].status = "IN_PROGRESS"]
    /\ UNCHANGED <<runVars, objects, docs, fmtVars>>

JobCompletes(j) ==
    /\ jobs[j].status = "IN_PROGRESS"
    /\ jobs' = [jobs EXCEPT ![j].status = "COMPLETED"]
    /\ \E d \in DocsFor(jobs[j].diarization) : docs' = [docs EXCEPT ![j] = d]
    /\ UNCHANGED <<runVars, objects, fmtVars>>

JobFails(j) ==
    /\ jobs[j].status = "IN_PROGRESS"
    /\ jobs' = [jobs EXCEPT ![j].status = "FAILED"]
    /\ UNCHANGED <<runVars, objects, docs, fmtVars>>

Next ==
    \/ \E r \in Runs : NewConfig(r)
    \/ \E r \in Runs : HeadBucket(r)
    \/ \E r \in Runs : HeadBucketReturns(r)
    \/ \E r \in Runs : OpenAndHash(r)
    \/ \E r \in Runs : CheckObjectExists(r)
    \/ \E r \in Runs : CheckObjectExistsReturns(r)
    \/ \E r \in Runs : UploadFile(r)
    \/ \E r \in Runs : UploadFileReturns(r)
    \/ \E r \in Runs : EnsureQuery(r)
    \/ \E r \in Runs : EnsureQueryReturns(r)
    \/ \E r \in Runs : StartJob(r)
    \/ \E r \in Runs : StartJobReturns(r)
    \/ \E r \in Runs : PollCancelled(r)
    \/ \E r \in Runs : PollTick(r)
    \/ \E r \in Runs : PollAnswer(r)
    \/ \E r \in Runs : GetTranscript(r)
    \/ \E r \in Runs : GetTranscriptReturns(r)
    \/ \E r \in Runs : DecodeTranscript(r)
    \/ \E r \in Runs : WriteFile(r)
    \/ \E r \in Runs : Interrupt(r)
    \/ \E j \in JobNames : JobRuns(j)
    \/ \E j \in JobNames : JobCompletes(j)
    \/ \E j \in JobNames : JobFails(j)

Spec == Init /\ [][Next]_vars

(***************************************************************************)
(* FormatTranscriptWithSpeakers on its own: the range loop over the items  *)
(* of one result, one item per step, for every items sequence of at most   *)
(* MaxItems items and for the named examples.                              *)
(***************************************************************************)
FormatLabels == {NoLabel, Spk0, Spk1, LabelBob}

FormatItems ==
    {Item("pronunciation", a, l) : a \in {<<>>, <<WHello>>, <<WHi>>}, l \in FormatLabels}
      \cup {Item("punctuation", a, l) : a \in {<<>>, <<PComma>>, <<PColon>>},
                                         l \in {NoLabel, Spk1}}
      \cup {Item("other", <<WHi>>, Spk1)}

TwoAlternatives == << Item("pronunciation", <<WHi, WHello>>, Spk12), Punct(PPeriod) >>

\* spk_0 speaks; a comma with two alternatives carries the label spk_1
PunctTwoAlternatives ==
    << Word(WHi, Spk0), Item("punctuation", <<PComma, PPeriod>>, Spk1), Word(WHello, Spk0) >>

FormatInputs ==
    UNION {[1..n -> FormatItems] : n \in 0..MaxItems}
      \cup {ExampleItems, UnlabelledItems, TwoAlternatives, PunctTwoAlternatives}

InitFormat ==
    /\ InitRuns
    /\ fItems \in FormatInputs
    /\ fIdx = 1
    /\ fState = FormatStart
    /\ fpc = "loop"
    /\ fOut = <<>>

\* one iteration of for _, item := range result.Results.Items
FormatStep ==
    /\ fpc = "loop"
    /\ fIdx <= Len(fItems)
    /\ fState' = FormatItem(fState, fItems[fIdx])
    /\ fIdx' = fIdx + 1
    /\ UNCHANGED <<fItems, fpc, fOut, runVars, remoteVars>>

\* return formatted.String()
FormatReturn ==
    /\ fpc = "loop"
    /\ fIdx > Len(fItems)
    /\ fOut' = fState.formatted
    /\ fpc' = "done"
    /\ UNCHANGED <<fItems, fIdx, fState, runVars, remoteVars>>

NextFormat == FormatStep \/ FormatReturn

SpecFormat == InitFormat /\ [][NextFormat]_vars

(***************************************************************************)
(* Properties of the pipeline, checked under Spec.                         *)
(***************************************************************************)
Issued(r, name) == \E i \in 1..Len(calls[r]) : calls[r][i] = name

\* the run has derived its S3 key and job name
Derived(r) == loc[r].jobName # <<>>

SameBytes(r, q) == FileBytes(cfg[r].input) = FileBytes(cfg[q].input)

SameBase(r, q) == Base(cfg[r].input) = Base(cfg[q].input)

DocOf(r) == docs[loc[r].jobName]

\* the text holds a "Speaker " header head somewhere
HasHeader(text) ==
    \E i \in 1..Len(text) :
        /\ i + Len(HeaderHead) - 1 <= Len(text)
        /\ SubSeq(text, i, i + Len(HeaderHead) - 1) = HeaderHead

\* the innermost error of a wrapped error
RootCause(e) == e[Len(e)]

\* C1: whenever EnsureTranscriptionJob has returned nil, whether the job was
\* started by this run or already existed at the first status query, the
\* status it saw for the job is COMPLETED (never QUEUED or IN_PROGRESS).
C1_NilOnlyWhenCompleted ==
    \A r \in Runs :
        (ensureRet[r].returned /\ ensureRet[r].err = <<>>)
            => ensureRet[r].status = "COMPLETED"

\* C2: whenever the status EnsureTranscriptionJob got for the job is FAILED,
\* at the initial query or at a later poll, it returns an error, run
\* returns an error and the output file is not written.
C2_FailedIsPropagated ==
    \A r \in Runs :
        (ensureRet[r].returned /\ ensureRet[r].status = "FAILED")
            => /\ ensureRet[r].err # <<>>
               /\ pc[r] = "done"
               /\ err[r] # <<>>
               /\ ~outFile[r].written

\* C3 as stated: a run that began after a successful run on the same bytes
\* derives the same S3 key and job name, and issues neither a PutObject nor
\* a StartTranscriptionJob.
C3_SecondRunIsNoOp ==
    \A r \in Runs : \A q \in after[r] :
        (Derived(r) /\ SameBytes(r, q))
            => /\ loc[r].s3Key = loc[q].s3Key
               /\ loc[r].jobName = loc[q].jobName
               /\ ~Issued(r, "PutObject")
               /\ ~Issued(r, "StartTranscriptionJob")

\* C3 amended: a run that began after a successful run on the same bytes
\* under the same base file name derives the same S3 key and job name, and
\* issues neither a PutObject nor a StartTranscriptionJob.
C3_SecondRunSameNameIsNoOp ==
    \A r \in Runs : \A q \in after[r] :
        (Derived(r) /\ SameBytes(r, q) /\ SameBase(r, q))
            => /\ loc[r].s3Key = loc[q].s3Key
               /\ loc[r].jobName = loc[q].jobName
               /\ ~Issued(r, "PutObject")
               /\ ~Issued(r, "StartTranscriptionJob")

\* a second run on the same bytes and base name went through to the end
C3_Witness ==
    \E r \in Runs : \E q \in after[r] :
        /\ SameBytes(r, q) /\ SameBase(r, q)
        /\ cfg[r].input # cfg[q].input
        /\ Succeeded(r)
        /\ Issued(r, "HeadObject") /\ Issued(r, "GetTranscriptionJob")

\* C4 as stated: two runs on files with the same bytes derive equal S3 keys
\* and equal job names, whatever the file names, paths and other flags.
C4_SameBytesSameArtifacts ==
    \A r, q \in Runs :
        (Derived(r) /\ Derived(q) /\ SameBytes(r, q))
            => /\ loc[r].s3Key = loc[q].s3Key
               /\ loc[r].jobName = loc[q].jobName

\* C4 amended: two runs on files with the same bytes derive equal job names
\* whatever the file names, paths and other flags, and equal S3 keys when
\* the base names of the two files are equal too.
C4_SameBytesSameJobName ==
    \A r, q \in Runs :
        (Derived(r) /\ Derived(q) /\ SameBytes(r, q))
            => /\ loc[r].jobName = loc[q].jobName
               /\ SameBase(r, q) => loc[r].s3Key = loc[q].s3Key

\* two runs on the same bytes with different base names and other flags
C4_Witness ==
    \E r, q \in Runs :
        /\ Derived(r) /\ Derived(q) /\ SameBytes(r, q)
        /\ ~SameBase(r, q)
        /\ cfg[r].diarization # cfg[q].diarization
        /\ loc[r].jobName = loc[q].jobName

\* the steps of the poll loop: waiting in the select, and with a status
\* query under way
PollSteps == {"poll", "polling"}

\* C5 as stated: a run interrupted while EnsureTranscriptionJob was in its
\* poll loop never writes the output file and returns an error whose cause
\* is the context's error, not "transcription job failed".
C5_CancelDuringPoll ==
    \A r \in Runs :
        cancelAt[r] \in PollSteps
            => /\ ~outFile[r].written
               /\ pc[r] = "done"
                    => /\ err[r] # <<>>
                       /\ RootCause(err[r]) = "context canceled"
                       /\ \A i \in 1..Len(err[r]) : err[r][i] # "transcription job failed"

\* C5, amended: a run interrupted in the poll loop never writes the output
\* file and returns an error.  Interrupted while it waited in the select, the
\* cause of the error is the context's error, and EnsureTranscriptionJob
\* leaves the loop with it at once.  Interrupted while a status query was
\* under way, the answer of that query may still be used: the cause is the
\* context's error, the error of the query, or "transcription job failed"
\* when the query answered FAILED.
C5_CancelDuringPollOrQuery ==
    \A r \in Runs :
        cancelAt[r] \in PollSteps
            => /\ ~outFile[r].written
               /\ cancelAt[r] = "poll" => pc[r] \in {"poll", "done"}
               /\ pc[r] = "done"
                    => /\ err[r] # <<>>
                       /\ ensureRet[r].err # <<>> \/ loc[r].jobStatus = "COMPLETED"
                       /\ \/ RootCause(err[r]) = "context canceled"
                          \/ /\ cancelAt[r] = "polling"
                             /\ RootCause(err[r]) = RootCause(RemoteError)
                             /\ loc[r].failed = "poll"
                          \/ /\ cancelAt[r] = "polling"
                             /\ RootCause(err[r]) = "transcription job failed"
                             /\ loc[r].jobStatus = "FAILED"

\* a run cancelled during a status query of its poll loop returned on the
\* answer FAILED
C5_Witness ==
    \E r \in Runs :
        /\ cancelAt[r] = "polling"
        /\ ctxDone[r]
        /\ pc[r] = "done"
        /\ loc[r].jobStatus = "FAILED"
        /\ RootCause(err[r]) = "transcription job failed"
        /\ ~outFile[r].written

\* C6: a run given the force option issues a StartTranscriptionJob request
\* even though a job with the derived name already exists.
C6_ForceStartsJob ==
    \A r \in Runs :
        (cfg[r].force /\ pc[r] \in {"done", "exited"}
           /\ jobs[JobName(FileHash(FileBytes(cfg[r].input)), cfg[r].input)].status # "NONE")
            => Issued(r, "StartTranscriptionJob")

\* C7: when a result with a non-empty transcripts list was decoded and the
\* output text produced, the text is the first transcript if diarization is
\* disabled or the result has no speaker-label block, and it carries a
\* "Speaker " header only if diarization is enabled and the block is there.
C7_FlatFallback ==
    \A r \in Runs :
        (loc[r].decoded /\ pc[r] = "write")
            => /\ Len(DocOf(r).transcripts) > 0
               /\ (~cfg[r].diarization \/ ~DocOf(r).speakerLabels)
                    => loc[r].transcript = DocOf(r).transcripts[1]
               /\ HasHeader(loc[r].transcript)
                    => (cfg[r].diarization /\ DocOf(r).speakerLabels)

\* diarization off, speaker labels present in the result: flat text produced
C7_Witness ==
    \E r \in Runs :
        /\ loc[r].decoded /\ pc[r] = "write"
        /\ ~cfg[r].diarization
        /\ DocOf(r).speakerLabels
        /\ loc[r].transcript = Flat1

\* C8: a run that decoded a result with an empty transcripts list returns
\* the error "no transcript found in result" and writes no output file.
C8_EmptyTranscriptsFail ==
    \A r \in Runs :
        (loc[r].decoded /\ DocOf(r).kind = "json" /\ Len(DocOf(r).transcripts) = 0)
            => /\ pc[r] = "done"
               /\ err[r] = <<"retrieve transcription result", "no transcript found in result">>
               /\ ~outFile[r].written

\* a run decoded a result with an empty transcripts list
C8_Witness ==
    \E r \in Runs :
        /\ loc[r].decoded
        /\ DocOf(r).kind = "json"
        /\ Len(DocOf(r).transcripts) = 0
        /\ ~cfg[r].diarization

(***************************************************************************)
(* Properties of the formatter, checked under SpecFormat.  The renderings  *)
(* the claims describe are written out independently of the loop.          *)
(***************************************************************************)
IsWord(items, i) == items[i].type = "pronunciation"

\* index of the last word before position i, 0 if there is none
PrevWord(items, i) ==
    LET before == {j \in 1..(i - 1) : IsWord(items, j)}
    IN  IF before = {} THEN 0 ELSE CHOOSE j \in before : \A k \in before : k <= j

\* position i is the first word of a maximal run of same-speaker words
RunStart(items, i) ==
    /\ IsWord(items, i)
    /\ PrevWord(items, i) = 0 \/ items[PrevWord(items, i)].label # items[i].label

\* first position after the paragraph that starts at a
RunEnd(items, a) ==
    LET later == {j \in (a + 1)..Len(items) : RunStart(items, j)}
    IN  IF later = {} THEN Len(items) + 1 ELSE CHOOSE j \in later : \A k \in later : j <= k

\* the words of items[i..b-1] separated by single spaces, each punctuation
\* mark attached to the token before it
RECURSIVE RunText(_, _, _, _)
RunText(items, i, b, first) ==
    IF i >= b
      THEN <<>>
      ELSE (CASE items[i].type = "pronunciation" ->
                   (IF first THEN <<>> ELSE Space) \o items[i].alternatives[1]
              [] items[i].type = "punctuation" ->
                   (IF Len(items[i].alternatives) > 0 THEN items[i].alternatives[1] ELSE <<>>)
              [] OTHER -> <<>>)
             \o RunText(items, i + 1, b, FALSE)

\* the label without a leading spk_, a label without that prefix unchanged
SpeakerNumber(label) ==
    IF Len(label) >= 4 /\ label[1] = "s" /\ label[2] = "p" /\ label[3] = "k" /\ label[4] = "_"
      THEN [i \in 1..(Len(label) - 4) |-> label[i + 4]]
      ELSE label

\* "Speaker <N>: " for a label spk_<N>
TurnHeader(label) ==
    <<"S", "p", "e", "a", "k", "e", "r", " ">> \o SpeakerNumber(label) \o <<":", " ">>

\* the paragraphs from the one starting at a on, separated by two newlines
RECURSIVE Paragraphs(_, _)
Paragraphs(items, a) ==
    TurnHeader(items[a].label) \o RunText(items, a, RunEnd(items, a), TRUE)
      \o (IF RunEnd(items, a) <= Len(items)
            THEN <<NL, NL>> \o Paragraphs(items, RunEnd(items, a))
            ELSE <<>>)

\* the items start with a word, and every word has a label and a content
SpeakerTurnsInput(items) ==
    /\ Len(items) > 0
    /\ IsWord(items, 1)
    /\ \A i \in 1..Len(items) :
         IsWord(items, i) => (items[i].label # <<>> /\ Len(items[i].alternatives) > 0)

\* C9: the worked example renders as "Speaker 0: Hello, world." then two
\* newlines then "Speaker 1: Hi"; and every items sequence that starts with
\* a word and whose words all have a label and a content renders as one
\* paragraph per maximal run of same-speaker words, separated by two
\* newlines, each a header followed by the words of the run separated by
\* single spaces with the punctuation attached to the token before it.
C9_SpeakerTurns ==
    fpc = "done"
        => /\ fItems = ExampleItems => fOut = ExampleOutput
           /\ SpeakerTurnsInput(fItems) => fOut = Paragraphs(fItems, 1)

\* the worked example has been formatted
C9_Witness ==
    /\ fpc = "done"
    /\ fItems = ExampleItems
    /\ SpeakerTurnsInput(fItems)
    /\ fOut = ExampleOutput

\* the word and punctuation contents concatenated, single spaces between a
\* word and the token before it, nothing before the first token
RECURSIVE PlainText(_, _, _)
PlainText(items, i, emitted) ==
    IF i > Len(items)
      THEN <<>>
      ELSE IF items[i].type \in {"pronunciation", "punctuation"}
                /\ Len(items[i].alternatives) > 0
        THEN (IF items[i].type = "pronunciation" /\ emitted THEN Space ELSE <<>>)
               \o items[i].alternatives[1] \o PlainText(items, i + 1, TRUE)
        ELSE PlainText(items, i + 1, emitted)

Unlabelled(items) == \A i \in 1..Len(items) : items[i].label = <<>>

\* C10: when no item carries a speaker label the output is the plain
\* concatenation of the word contents separated by single spaces with the
\* punctuation attached, and so does not begin with a space.
C10_UnlabelledIsPlain ==
    (fpc = "done" /\ Unlabelled(fItems)) => fOut = PlainText(fItems, 1, FALSE)

\* the items that have at least one alternative, in order
RECURSIVE WithoutEmpty(_)
WithoutEmpty(items) ==
    IF items = <<>>
      THEN <<>>
      ELSE (IF Len(Head(items).alternatives) > 0 THEN <<Head(items)>> ELSE <<>>)
             \o WithoutEmpty(Tail(items))

\* C11: removing every item whose alternatives list is empty leaves the
\* returned string unchanged.
C11_EmptyAlternativesSkipped ==
    fpc = "done" => fOut = FormatTranscriptWithSpeakers(WithoutEmpty(fItems))

\* what one iteration of the loop appends to the text
Emitted == SubSeq(fState'.formatted, Len(fState.formatted) + 1, Len(fState'.formatted))

HasNewline(text) == \E i \in 1..Len(text) : text[i] = NL

UnlabelledWord(items, i) == IsWord(items, i) /\ items[i].label = <<>>

\* C12: an iteration on a word without speaker label leaves the active
\* speaker unchanged and appends neither a header nor a paragraph break, and
\* the iteration on a following word labelled with the still active speaker
\* appends no header either.
C12_UnlabelledWordKeepsSpeaker ==
    [][FormatStep =>
         /\ UnlabelledWord(fItems, fIdx)
              => /\ fState'.currentSpeaker = fState.currentSpeaker
                 /\ ~HasHeader(Emitted)
                 /\ ~HasNewline(Emitted)
         /\ (fIdx > 1 /\ UnlabelledWord(fItems, fIdx - 1) /\ IsWord(fItems, fIdx)
               /\ fItems[fIdx].label = fState.currentSpeaker)
              => ~HasHeader(Emitted)]_vars

\* spk_0 speaks, an unlabelled word follows, spk_0 goes on: one header only
C12_Witness ==
    /\ fpc = "done"
    /\ fItems = << Word(WHello, Spk0), Word(WHi, NoLabel), Word(WHello, Spk0) >>
    /\ fOut = HeaderHead \o <<"0">> \o HeaderTail \o WHello \o Space \o WHi \o Space \o WHello

\* C13: whenever an iteration appends a header, the item is a word and what
\* is appended is, after a possible paragraph break, "Speaker <N>: " with
\* <N> the label without a leading spk_ (a label without it unchanged),
\* followed by the word's content if it has one; spk_12 gives "Speaker 12: ".
C13_HeaderForm ==
    [][(FormatStep /\ HasHeader(Emitted)) =>
         /\ IsWord(fItems, fIdx)
         /\ \E pre \in {<<>>, <<NL, NL>>} :
              \E post \in {<<>>} \cup {<<fItems[fIdx].alternatives[k]>> :
                                         k \in 1..Len(fItems[fIdx].alternatives)} :
                 Emitted = pre \o TurnHeader(fItems[fIdx].label)
                             \o (IF post = <<>> THEN <<>> ELSE post[1])
         /\ fItems[fIdx].label = Spk12
              => SubSeq(Emitted, 1, 12)
                   = <<"S", "p", "e", "a", "k", "e", "r", " ", "1", "2", ":", " ">>]_vars

\* the label spk_12 has been rendered
C13_Witness ==
    /\ fpc = "done"
    /\ fItems = TwoAlternatives
    /\ fOut = <<"S", "p", "e", "a", "k", "e", "r", " ", "1", "2", ":", " ">> \o WHi \o PPeriod

\* C14: an iteration appends a header exactly when the item is a word whose
\* non-empty label differs from the active speaker; the header comes after a
\* paragraph break exactly when some text was emitted before; a labelled
\* first word makes the text start with its header; the text never starts
\* with a newline.
C14_HeaderExactlyOnChange ==
    [][FormatStep =>
         /\ HasHeader(Emitted)
              <=> (IsWord(fItems, fIdx) /\ fItems[fIdx].label # <<>>
                     /\ fItems[fIdx].label # fState.currentSpeaker)
         /\ HasHeader(Emitted)
              => (HasPrefix(Emitted, <<NL, NL>>) <=> Len(fState.formatted) > 0)
         /\ ~HasHeader(Emitted) => ~HasNewline(Emitted)
         /\ (fIdx = 1 /\ IsWord(fItems, 1) /\ fItems[1].label # <<>>)
              => HasPrefix(fState'.formatted, TurnHeader(fItems[1].label))
         /\ ~HasPrefix(fState'.formatted, <<NL>>)]_vars

\* a labelled first word, then a word of another speaker after a break
C14_Witness ==
    /\ fpc = "done"
    /\ fItems = << Word(WHi, Spk1), Word(WHello, Spk0) >>
    /\ fOut = HeaderHead \o <<"1">> \o HeaderTail \o WHi \o <<NL, NL>>
                \o HeaderHead \o <<"0">> \o HeaderTail \o WHello

(***************************************************************************)
(* Errors of the configuration and errors of the remote calls.             *)
(***************************************************************************)
\* the run has read its flags and did not exit on them
Configured(r) == pc[r] \notin {"new", "exited"}

\* the command lines whose input does not end in .m4a or whose bucket name
\* is invalid
BadFlagArgs ==
    {a \in ArgSets : \/ ~HasSuffix(ToLower(a.input), M4aSuffix)
                     \/ ~ValidateBucketName(a.bucket)}

BadFlags(r) == cfg[r] \in BadFlagArgs

Unopenable(r) == ~FileExists(cfg[r].input)

\* C15 as stated: a run whose input file does not end in .m4a, whose bucket
\* name is invalid or whose input path cannot be opened returns an error
\* without having issued any remote call.
C15_ConfigErrorsNoRemoteCall ==
    \A r \in Runs :
      (Configured(r) /\ (BadFlags(r) \/ Unopenable(r))) =>
        /\ calls[r] = <<>>
        /\ pc[r] = "done" => err[r] # <<>>

\* C15, amended: a run with a bad file suffix or an invalid bucket name
\* returns an error at once and issues no remote call; a run whose input path
\* cannot be opened returns an error having issued at most the bucket check
\* (HeadBucket), no call on an object and no call to the transcription
\* service, and it writes no output.
C15_BadFlagsNoRemoteCall ==
    \A r \in Runs :
      Configured(r) =>
        /\ BadFlags(r) =>
             /\ pc[r] = "done"
             /\ err[r] # <<>>
             /\ calls[r] = <<>>
        /\ (Unopenable(r) /\ ~BadFlags(r)) =>
             /\ pc[r] \in {"headBucket", "headBucketWait", "open", "done"}
             /\ calls[r] \in {<<>>, <<"HeadBucket">>}
             /\ pc[r] = "done" => err[r] # <<>>
             /\ ~outFile[r].written

C15_Witness ==
    \E r, q \in Runs :
      /\ cfg[r].input = PathGone
      /\ pc[r] = "done"
      /\ err[r] = Wrap("open input file", <<"no such file">>)
      /\ calls[r] = <<"HeadBucket">>
      /\ cfg[q].input = PathTxt
      /\ pc[q] = "done"
      /\ err[q] = <<"input file must be an m4a file">>
      /\ calls[q] = <<>>

\* the remote calls a run that wrote its output has behind it
CallsOfSuccess == {"HeadBucket", "HeadObject", "GetTranscriptionJob", "GetObject"}

\* C16: once a remote call (HeadBucket, HeadObject other than not-found,
\* PutObject, GetTranscriptionJob other than not-found, StartTranscriptionJob,
\* GetObject) or the JSON decoding has failed in a run, the run has returned
\* a non-nil error, takes no further step, issues no further call and has no
\* output file; an output file exists only in a run in which no call and no
\* decoding failed and every earlier step was taken.
C16_ErrorsSurfaced ==
    /\ [](\A r \in Runs :
            /\ loc[r].failed # "" =>
                 /\ pc[r] = "done"
                 /\ err[r] # <<>>
                 /\ ~outFile[r].written
            /\ outFile[r].written =>
                 /\ loc[r].failed = ""
                 /\ err[r] # <<>> => err[r][1] = "write transcript to file"
                 /\ loc[r].decoded
                 /\ ensureRet[r].returned /\ ensureRet[r].err = <<>>
                 /\ \A c \in CallsOfSuccess : Issued(r, c))
    /\ [][\A r \in Runs :
            loc[r].failed # "" =>
              /\ pc'[r] = pc[r]
              /\ calls'[r] = calls[r]
              /\ outFile'[r] = outFile[r]
              /\ err'[r] = err[r]]_vars

C16_Witness ==
    \E r, q \in Runs :
      /\ loc[r].failed = "decode"
      /\ err[r] # <<>>
      /\ ~outFile[r].written
      /\ calls[r][Len(calls[r])] = "GetObject"
      /\ loc[q].failed = "startJob"
      /\ RootCause(err[q]) = "ConflictException"
      /\ ~Issued(q, "GetObject")
      /\ ~outFile[q].written

(***************************************************************************)
(* The start request.                                                      *)
(***************************************************************************)
\* the 32-bit number i is the Go int n
SameNumber(i, n) ==
    /\ n.hi = (IF i < 0 THEN -1 ELSE 0)
    /\ Int32(n) = i

\* C17: the request of a successful StartTranscriptionJob carries the
\* configured language code, the media location s3://<bucket>/<key> and the
\* output bucket; it has a settings block exactly when diarization is
\* enabled, and the block carries the configured maximum speaker count.
C17_StartRequest ==
    [][\A r \in Runs :
         (pc[r] = "startJobWait" /\ pc'[r] = "poll") =>
           LET req == jobs'[loc[r].jobName].request
           IN  /\ req.languageCode = cfg[r].languageCode
               /\ req.mediaFileUri = <<"s3://">> \o cfg[r].bucket \o <<"/">> \o loc[r].s3Key
               /\ req.outputBucket = cfg[r].bucket
               /\ req.settings.present <=> cfg[r].diarization
               /\ req.settings.present =>
                    /\ req.settings.showSpeakerLabels
                    /\ SameNumber(req.settings.maxSpeakerLabels, cfg[r].maxSpeakers)]_vars

(***************************************************************************)
(* The poll loop under fair ticking: one invocation on its own, whose      *)
(* ticker keeps firing while it waits in the loop.                         *)
(***************************************************************************)
PollRun == 1

NextPoll ==
    \/ NewConfig(PollRun)
    \/ HeadBucket(PollRun)
    \/ HeadBucketReturns(PollRun)
    \/ OpenAndHash(PollRun)
    \/ CheckObjectExists(PollRun)
    \/ CheckObjectExistsReturns(PollRun)
    \/ UploadFile(PollRun)
    \/ UploadFileReturns(PollRun)
    \/ EnsureQuery(PollRun)
    \/ EnsureQueryReturns(PollRun)
    \/ StartJob(PollRun)
    \/ StartJobReturns(PollRun)
    \/ PollCancelled(PollRun)
    \/ PollTick(PollRun)
    \/ PollAnswer(PollRun)
    \/ GetTranscript(PollRun)
    \/ GetTranscriptReturns(PollRun)
    \/ DecodeTranscript(PollRun)
    \/ WriteFile(PollRun)
    \/ Interrupt(PollRun)
    \/ \E j \in JobNames : JobRuns(j)
    \/ \E j \in JobNames : JobCompletes(j)
    \/ \E j \in JobNames : JobFails(j)

SpecPoll ==
    /\ Init /\ [][NextPoll]_vars
    /\ WF_vars(PollTick(PollRun))
    /\ WF_vars(PollAnswer(PollRun))

Terminal == {"COMPLETED", "FAILED"}

\* the ways out of the poll loop, by the state the step leaves behind
LeftCompleted(r) ==
    /\ pc'[r] = "getTranscript"
    /\ loc'[r].jobStatus = "COMPLETED"
    /\ ensureRet'[r].returned /\ ensureRet'[r].err = <<>>

LeftFailed(r) ==
    /\ pc'[r] = "done"
    /\ loc'[r].jobStatus = "FAILED"
    /\ ensureRet'[r].err = <<"transcription job failed">>
    /\ err'[r] # <<>>

LeftOnQueryError(r) ==
    /\ pc'[r] = "done"
    /\ ensureRet'[r].err[1] = "retrieving transcription job status"
    /\ err'[r] # <<>>

LeftCancelled(r) ==
    /\ pc'[r] = "done"
    /\ ctxDone[r]
    /\ ensureRet'[r].err = Canceled
    /\ err'[r] # <<>>

\* C18: a run leaves the poll loop only by a poll that observed COMPLETED
\* (nil), a poll that observed FAILED (error), a failed status query (error)
\* or the cancelled context (error), and a poll that observed COMPLETED or
\* FAILED always leaves it; under fair ticking a run waiting on a job that
\* has reached COMPLETED or FAILED eventually leaves the loop; a poll that
\* observes any other status leaves the run in the loop, however many polls
\* went before.
C18_PollLoop ==
    /\ [][\A r \in Runs :
            pc[r] \in PollSteps =>
              /\ pc'[r] \notin PollSteps =>
                   \/ LeftCompleted(r)
                   \/ LeftFailed(r)
                   \/ LeftOnQueryError(r)
                   \/ LeftCancelled(r)
              /\ pc'[r] \in PollSteps =>
                   /\ loc'[r].jobStatus \notin Terminal
                   /\ ~ensureRet'[r].returned
                   /\ err'[r] = <<>>]_vars
    /\ \A r \in Runs :
         (pc[r] \in PollSteps /\ jobs[loc[r].jobName].status \in Terminal)
            ~> (pc[r] \notin PollSteps)

C18_Witness ==
    \E r \in Runs :
      /\ pc[r] = "getTranscript"
      /\ Issued(r, "StartTranscriptionJob")
      /\ loc[r].jobStatus = "COMPLETED"
      /\ ensureRet[r].returned /\ ensureRet[r].err = <<>>

(***************************************************************************)
(* The two existence checks and the order of the remote operations.        *)
(***************************************************************************)
\* the run went on to the step: it is about to make the call, has made it,
\* the call failed, or (the upload) the file could not be opened for it
WentOnTo(r, step, call) ==
    \/ pc[r] = step
    \/ Issued(r, call)
    \/ loc[r].failed = step
    \/ step = "upload" /\ err[r] = Wrap("upload file to S3", <<"no such file">>)

\* C19: a run goes on to the upload exactly when its object check reported
\* not found, and on to the start request exactly when its job status query
\* reported not found; a check that failed with any other error has ended
\* the run with that error, with no upload (object check) and no start
\* request (either check) issued.
C19_NotFoundIsNoError ==
    \A r \in Runs :
      /\ WentOnTo(r, "upload", "PutObject") <=> loc[r].objResp = "notfound"
      /\ WentOnTo(r, "startJob", "StartTranscriptionJob") <=> loc[r].jobResp = "notfound"
      /\ loc[r].objResp = "error" =>
           /\ pc[r] = "done"
           /\ err[r][1] = "check S3 object existence"
           /\ RootCause(err[r]) \in {RootCause(RemoteError), RootCause(Canceled)}
           /\ ~Issued(r, "PutObject")
           /\ ~Issued(r, "GetTranscriptionJob")
           /\ ~Issued(r, "StartTranscriptionJob")
      /\ loc[r].jobResp = "error" =>
           /\ pc[r] = "done"
           /\ err[r][2] = "checking transcription job status"
           /\ RootCause(err[r]) \in {RootCause(RemoteError), RootCause(Canceled)}
           /\ ~Issued(r, "StartTranscriptionJob")

C19_Witness ==
    \E r, q \in Runs :
      /\ loc[r].objResp = "notfound"
      /\ Issued(r, "PutObject")
      /\ loc[r].jobResp = "notfound"
      /\ Issued(r, "StartTranscriptionJob")
      /\ loc[q].objResp = "ok"
      /\ ~Issued(q, "PutObject")
      /\ loc[q].jobResp = "error"
      /\ pc[q] = "done"
      /\ RootCause(err[q]) = RootCause(RemoteError)

\* the place of the first call of that name in the log of the run
FirstCall(r, name) ==
    CHOOSE i \in 1..Len(calls[r]) :
      /\ calls[r][i] = name
      /\ \A j \in 1..(i - 1) : calls[r][j] # name

Before(r, first, second) ==
    /\ Issued(r, first)
    /\ FirstCall(r, first) < FirstCall(r, second)

StartCount(r) == Cardinality({i \in 1..Len(calls[r]) : calls[r][i] = "StartTranscriptionJob"})

\* C20: within one run StartTranscriptionJob is issued at most once, after
\* the object check, with the media object in the bucket (the check found it
\* or the upload succeeded), and after a job status query that reported not
\* found; GetObject is issued only after EnsureTranscriptionJob returned
\* nil; the output file is written at most once, as the last step, after the
\* download and the decoding succeeded.
C20_OrderOfOperations ==
    /\ [](\A r \in Runs :
            /\ StartCount(r) <= 1
            /\ Issued(r, "StartTranscriptionJob") =>
                 /\ Before(r, "HeadObject", "StartTranscriptionJob")
                 /\ Before(r, "GetTranscriptionJob", "StartTranscriptionJob")
                 /\ \/ loc[r].objResp = "ok"
                    \/ /\ Before(r, "PutObject", "StartTranscriptionJob")
                       /\ loc[r].failed # "upload"
                 /\ loc[r].s3Key \in objects
                 /\ loc[r].jobResp = "notfound"
            /\ Issued(r, "GetObject") =>
                 /\ ensureRet[r].returned /\ ensureRet[r].err = <<>>
                 /\ Before(r, "GetTranscriptionJob", "GetObject")
                 /\ calls[r][Len(calls[r])] = "GetObject"
            /\ outFile[r].written =>
                 /\ pc[r] = "done"
                 /\ Issued(r, "GetObject")
                 /\ loc[r].decoded
                 /\ loc[r].failed = ""
                 /\ outFile[r].path = cfg[r].output
                 /\ err[r] = <<>> => outFile[r].data = loc[r].transcript)
    /\ [][\A r \in Runs :
            /\ Issued(r, "StartTranscriptionJob") => pc'[r] # "startJob"
            /\ outFile[r].written => (outFile'[r] = outFile[r] /\ pc'[r] = pc[r])]_vars

C20_Witness ==
    \E r \in Runs :
      /\ calls[r] = <<"HeadBucket", "HeadObject", "PutObject", "GetTranscriptionJob",
                      "StartTranscriptionJob", "GetTranscriptionJob", "GetObject">>
      /\ outFile[r].written
      /\ err[r] = <<>>

(***************************************************************************)
(* Two runs on the same content racing for the start request.              *)
(***************************************************************************)
SameJob(r, q) == r # q /\ Derived(r) /\ Derived(q) /\ loc[r].jobName = loc[q].jobName

\* the start request of the run has returned without an error
StartAccepted(r) ==
    /\ Issued(r, "StartTranscriptionJob")
    /\ pc[r] # "startJobWait"
    /\ loc[r].failed # "startJob"

\* the start request of the run was rejected because the name was taken
StartRejected(r) ==
    /\ loc[r].failed = "startJob"
    /\ RootCause(err[r]) = "ConflictException"

\* C21: two runs with the same job name whose status queries both reported
\* not found both go on to the start request, and at most one of the two
\* requests is accepted; a run whose request was rejected has returned the
\* error "start transcription job" right after the request, without a poll,
\* a download or an output file; a job, once created, is never replaced by a
\* later start request of the same name.
C21_StartRace ==
    /\ [](\A r \in Runs :
            /\ \A q \in Runs :
                 (SameJob(r, q) /\ loc[r].jobResp = "notfound"
                    /\ loc[q].jobResp = "notfound") =>
                   /\ WentOnTo(r, "startJob", "StartTranscriptionJob")
                   /\ WentOnTo(q, "startJob", "StartTranscriptionJob")
                   /\ ~(StartAccepted(r) /\ StartAccepted(q))
            /\ StartRejected(r) =>
                 /\ pc[r] = "done"
                 /\ \E i \in 1..Len(err[r]) : err[r][i] = "start transcription job"
                 /\ ensureRet[r].returned /\ ensureRet[r].err # <<>>
                 /\ calls[r][Len(calls[r])] = "StartTranscriptionJob"
                 /\ loc[r].jobStatus = ""
                 /\ ~Issued(r, "GetObject")
                 /\ ~outFile[r].written)
    /\ [][\A j \in JobNames :
            jobs[j].status # "NONE" =>
              /\ jobs'[j].status # "NONE"
              /\ jobs'[j].request = jobs[j].request]_vars

C21_Witness ==
    \E r, q \in Runs :
      /\ SameJob(r, q)
      /\ loc[r].jobResp = "notfound" /\ loc[q].jobResp = "notfound"
      /\ Issued(r, "StartTranscriptionJob") /\ Issued(q, "StartTranscriptionJob")
      /\ StartAccepted(r)
      /\ StartRejected(q)
      /\ pc[q] = "done"
      /\ jobs[loc[q].jobName].request.languageCode = cfg[r].languageCode

(***************************************************************************)
(* The job name and the settings of the run.                               *)
(***************************************************************************)
\* the settings of the run differ from those the job was started with
OtherSettings(r) ==
    LET req == jobs[loc[r].jobName].request
    IN  /\ req.languageCode # cfg[r].languageCode
        /\ cfg[r].diarization /\ ~req.settings.present

\* C22: the job name of a run is made of the hash of the file content alone,
\* so runs on the same bytes share it whatever their language code,
\* diarization flag and maximum speaker count; a run whose status query found
\* the job, or that began after a successful run on the same bytes, issues
\* no start request and leaves the request of the job as it was; and a run
\* with diarization enabled that found a job started without a settings
\* block gets a result without speaker labels and hands on the flat first
\* transcript, which holds no speaker header.
C22_JobNameIgnoresSettings ==
    \A r \in Runs :
      /\ Derived(r) =>
           /\ loc[r].jobName = <<"transcribe-">> \o FileHash(FileBytes(cfg[r].input))
           /\ \A q \in Runs :
                (Derived(q) /\ SameBytes(r, q)) => loc[q].jobName = loc[r].jobName
      /\ (loc[r].jobResp = "ok" \/ \E q \in after[r] : SameBytes(r, q)) =>
           /\ ~Issued(r, "StartTranscriptionJob")
           /\ pc[r] # "startJob"
      /\ (loc[r].jobResp = "ok" /\ cfg[r].diarization
            /\ ~jobs[loc[r].jobName].request.settings.present
            /\ (pc[r] = "write" \/ outFile[r].written)) =>
           /\ ~DocOf(r).speakerLabels
           /\ loc[r].transcript = DocOf(r).transcripts[1]
           /\ ~HasHeader(loc[r].transcript)
           /\ (outFile[r].written /\ err[r] = <<>>) =>
                outFile[r].data = DocOf(r).transcripts[1]

C22_Witness ==
    \E r \in Runs :
      /\ loc[r].jobResp = "ok"
      /\ OtherSettings(r)
      /\ cfg[r].maxSpeakers # GoInt(DefaultMaxSpeakers)
      /\ ~Issued(r, "StartTranscriptionJob")
      /\ outFile[r].written
      /\ outFile[r].data = Flat1

(***************************************************************************)
(* Items that are not words, checked under SpecFormat.                     *)
(***************************************************************************)
IsPunct(items, i) == items[i].type = "punctuation"

\* C23: an iteration changes the active speaker only on a word; on a
\* punctuation item it appends the content of the first alternative, if there
\* is one, and nothing else, and on an item of any other type it appends
\* nothing; neither updates the active speaker, whatever label the item
\* carries, so that neither emits a header or a paragraph break and a
\* following word of the active speaker gets no header.
C23_OnlyWordsChangeSpeaker ==
    [][FormatStep =>
         /\ fState'.currentSpeaker # fState.currentSpeaker => IsWord(fItems, fIdx)
         /\ IsPunct(fItems, fIdx) =>
              /\ Emitted = (IF Len(fItems[fIdx].alternatives) > 0
                              THEN fItems[fIdx].alternatives[1] ELSE <<>>)
              /\ ~HasHeader(Emitted)
              /\ ~HasNewline(Emitted)
         /\ (~IsWord(fItems, fIdx) /\ ~IsPunct(fItems, fIdx)) =>
              fState'.formatted = fState.formatted
         /\ (fIdx > 1 /\ ~IsWord(fItems, fIdx - 1) /\ IsWord(fItems, fIdx)
               /\ fItems[fIdx].label = fState.currentSpeaker) =>
              ~HasHeader(Emitted)]_vars

C23_Witness ==
    /\ fpc = "done"
    /\ fItems = PunctTwoAlternatives
    /\ fOut = HeaderHead \o <<"0">> \o HeaderTail \o WHi \o PComma \o Space \o WHello

====
